---- MODULE Spec2Model ----
(***************************************************************************)
(* A model of the azul-tiles-rs rules engine: TileGroup (tiles.rs), Wall   *)
(* (playerboard/wall.rs), PlayerBoard (playerboard/mod.rs) and Gamestate   *)
(* (gamestate.rs), for the two player game Gamestate<2, 6>.                *)
(*                                                                         *)
(* Tile colours are their ordinals 0..4 (Blue, Yellow, Red, Black, White), *)
(* row and column indices are their ordinals 0..4, a TileGroup is its      *)
(* counts array, an Option is a record with a `some` flag.                 *)
(***************************************************************************)
EXTENDS Integers, Sequences, FiniteSets, TLC

\* Gamestate<P, F>: the const generics of the two player game.
P == 2
F == 6

\* Bounds of the exploration: the seeds given to Gamestate::new and the
\* move-picking strategies of the two callers.
MaxSeed == 2
MaxStrategy == 3

\* The round at which end_round ends the game whatever the walls hold.
MaxRound == 10

Tiles == 0 .. 4
Rows == 0 .. 4
Columns == 0 .. 4
Players == 0 .. (P - 1)
Slots == 0 .. (F - 1)

\* Option<Tile>::None in a wall cell.
NoTile == -1

\* usize::from(Destination::Floor).
Floor == 5

\* u8 arithmetic as the release build computes it.
U8(x) == x % 256

(***************************************************************************)
(* tiles.rs: TileGroup                                                     *)
(***************************************************************************)
new_empty == [t \in Tiles |-> 0]

new_bag == [t \in Tiles |-> 20]

total(g) == g[0] + g[1] + g[2] + g[3] + g[4]

\* An add_assign that assigns instead of adding.
add_assign_replaces(g, other) == other

add_assign(g, other) == [t \in Tiles |-> g[t] + other[t]]

\* An add_tiles that books the tiles under the colour that follows.
add_tiles_next_colour(g, tile, count) == [g EXCEPT ![(tile + 1) % 5] = @ + count]

\* An add_tiles that adds a single tile whatever the count.
add_tiles_one(g, tile, count) == [g EXCEPT ![tile] = @ + 1]

add_tiles(g, tile, count) == [g EXCEPT ![tile] = @ + count]

add_tile(g, tile) == [g EXCEPT ![tile] = @ + 1]

\* take_tile returns counts[tile] and leaves the group without that colour.
take_tile_count(g, tile) == g[tile]

\* A take_tile that forgets to clear the colour it has counted.
take_tile_rest_keeps(g, tile) == g

take_tile_rest(g, tile) == [g EXCEPT ![tile] = 0]

\* The running sum of random_tile's loop after the entry of `tile`.
CumulativeCount(g, tile) ==
    LET S[t \in Tiles] == IF t = 0 THEN g[0] ELSE S[t - 1] + g[t]
    IN  S[tile]

\* The tile random_tile returns for the drawn number n < total(g): the first
\* one, in Tile order, whose running sum exceeds n.
random_tile_pick(g, n) ==
    CHOOSE t \in Tiles :
        /\ n < CumulativeCount(g, t)
        /\ \A u \in Tiles : u < t => ~(n < CumulativeCount(g, u))

\* SmallRng: a deterministic generator whose stream of words is a function
\* of the seed alone.  The generator belongs to the rand crate; the model
\* keeps what the engine relies on, a state that each draw advances, and
\* abstracts the streams by two families on 15 bit words.  Seed 0 stands for
\* a seed whose words rise slowly, four draws in a row falling into the same
\* fifth of the range (the deals that fill a display with one colour); every
\* other seed starts a linear congruential generator.
RngModulus == 32768

seed_from_u64(seed) ==
    IF seed = 0
    THEN [lcg |-> FALSE, x |-> 0]
    ELSE [lcg |-> TRUE, x |-> (seed * 7919 + 4057) % RngModulus]

rng_next(rng) ==
    IF rng.lcg
    THEN [rng EXCEPT !.x = (@ * 1101 + 12345) % RngModulus]
    ELSE [rng EXCEPT !.x = (@ + 1) % 20]

rng_word(rng) ==
    IF rng.lcg
    THEN rng_next(rng).x
    ELSE (rng.x \div 4) * ((RngModulus \div 5) + 1)

\* rng.random_range(0..total): the word scaled down to the range.
random_range(rng, tot) == (rng_word(rng) * tot) \div RngModulus

(***************************************************************************)
(* playerboard/wall.rs: Wall                                               *)
(***************************************************************************)
WALL_COLOURS ==
    << <<0, 1, 2, 3, 4>>,
       <<4, 0, 1, 2, 3>>,
       <<3, 4, 0, 1, 2>>,
       <<2, 3, 4, 0, 1>>,
       <<1, 2, 3, 4, 0>> >>

WallDefault == [r \in Rows |-> [c \in Columns |-> NoTile]]

\* A tile_column that steps backwards through the row.
tile_column_backwards(row, tile) == (row + 5 - tile) % 5

tile_column(row, tile) == (row + tile) % 5

\* RowIndex::capacity: how many tiles fit in the row.
RowIndex_capacity(row) == row + 1

\* A cell_available that never looks at the wall.
cell_available_always(wall, row, tile) == TRUE

cell_available(wall, row, tile) == wall[row][tile_column(row, tile)] = NoTile

\* A place_tile that lays the row afresh around the tile it places.
place_tile_clears_row(wall, row, tile) ==
    [wall EXCEPT ![row] = [c \in Columns |->
                            IF c = tile_column(row, tile) THEN tile ELSE NoTile]]

place_tile(wall, row, tile) ==
    [wall EXCEPT ![row][tile_column(row, tile)] = tile]

\* The number of occupied cells met walking from the cell towards lower
\* (resp. higher) indices before the first empty one.
RunBefore(cells, at) ==
    Cardinality({i \in 0 .. (at - 1) :
                    \A j \in i .. (at - 1) : cells[j] # NoTile})

\* A run that counts every occupied cell after the cell, gaps or not.
RunAfter_over_gaps(cells, at) ==
    Cardinality({i \in (at + 1) .. 4 : cells[i] # NoTile})

RunAfter(cells, at) ==
    Cardinality({i \in (at + 1) .. 4 :
                    \A j \in (at + 1) .. i : cells[j] # NoTile})

WallColumn(wall, col) == [r \in Rows |-> wall[r][col]]

score_tile(wall, row, tile) ==
    LET col == tile_column(row, tile)
        colRun == RunBefore(WallColumn(wall, col), row)
                    + RunAfter(WallColumn(wall, col), row)
        col_score == IF colRun > 0 THEN colRun + 1 ELSE 0
        rowRun == RunBefore(wall[row], col) + RunAfter(wall[row], col)
        row_score == IF rowRun > 0 THEN rowRun + 1 ELSE 0
        score == col_score + row_score
    IN  IF score = 0 THEN 1 ELSE score

RowFull(wall, row) == \A c \in Columns : wall[row][c] # NoTile

\* A column test that reads along the row of the same index.
ColumnFull_reads_row(wall, col) == \A r \in Rows : wall[col][r] # NoTile

ColumnFull(wall, col) == \A r \in Rows : wall[r][col] # NoTile

ColourFull(wall, tile) ==
    \A r \in Rows : wall[r][tile_column(r, tile)] # NoTile

wall_score(wall) ==
    U8(2 * Cardinality({r \in Rows : RowFull(wall, r)})
        + 7 * Cardinality({c \in Columns : ColumnFull(wall, c)})
        + 10 * Cardinality({t \in Tiles : ColourFull(wall, t)}))

\* A full column taken for the game ending full row.
has_full_row_as_column(wall) == \E c \in Columns : ColumnFull(wall, c)

has_full_row(wall) == \E r \in Rows : RowFull(wall, r)

wall_tile_count(wall) ==
    Cardinality({rc \in Rows \X Columns : wall[rc[1]][rc[2]] # NoTile})

\* The scratch-wall step of PlayerBoard::predict_score: the score of the
\* placement, and the wall with the tile placed.
place_and_score_tile_score(wall, row, tile) == score_tile(wall, row, tile)

place_and_score_tile_wall(wall, row, tile) == place_tile(wall, row, tile)

(***************************************************************************)
(* playerboard/mod.rs: Row and PlayerBoard                                 *)
(***************************************************************************)
\* Row(None) and Row(Some((tile, count))).
RowDefault == [some |-> FALSE, tile |-> 0, count |-> 0]

RowSome(tile, count) == [some |-> TRUE, tile |-> tile, count |-> count]

row_capacity(row) == row + 1

PlayerBoardDefault ==
    [wall |-> WallDefault,
     floor |-> new_empty,
     first_player_tile |-> FALSE,
     rows |-> [r \in Rows |-> RowDefault],
     score |-> 0,
     predicted_score |-> 0]

\* Option<(u8, u8)>: (play_count, row_count).
CanPlayNone == [some |-> FALSE, play_count |-> 0, row_count |-> 0]

CanPlaySome(play_count, row_count) ==
    [some |-> TRUE, play_count |-> play_count, row_count |-> row_count]

Min(a, b) == IF a < b THEN a ELSE b

\* A can_play_tile that offers an empty row without a look at the wall.
can_play_tile_skips_wall(board, row, tile, count) ==
    LET r == board.rows[row]
    IN  IF r.some
        THEN IF r.tile = tile
             THEN IF r.count < row_capacity(row)
                  THEN LET tot == Min(r.count + count, row_capacity(row))
                       IN  CanPlaySome(tot - r.count, tot)
                  ELSE CanPlayNone
             ELSE CanPlayNone
        ELSE CanPlaySome(count, count)

can_play_tile(board, row, tile, count) ==
    LET r == board.rows[row]
    IN  IF r.some
        THEN IF r.tile = tile
             THEN IF r.count < row_capacity(row)
                  THEN LET tot == Min(r.count + count, row_capacity(row))
                       IN  CanPlaySome(tot - r.count, tot)
                  ELSE CanPlayNone
             ELSE CanPlayNone
        ELSE IF cell_available(board.wall, row, tile)
             THEN CanPlaySome(count, count)
             ELSE CanPlayNone

\* A floor_score that leaves the first player token out of the count.
floor_score_without_token(tiles, fp) ==
    LET tot == total(tiles)
    IN  CASE tot = 0 -> 0
          [] tot = 1 -> 1
          [] tot = 2 -> 2
          [] tot = 3 -> 4
          [] tot = 4 -> 6
          [] tot = 5 -> 8
          [] tot = 6 -> 11
          [] OTHER -> 14

floor_score(tiles, fp) ==
    LET tot == total(tiles) + (IF fp THEN 1 ELSE 0)
    IN  CASE tot = 0 -> 0
          [] tot = 1 -> 1
          [] tot = 2 -> 2
          [] tot = 3 -> 4
          [] tot = 4 -> 6
          [] tot = 5 -> 8
          [] tot = 6 -> 11
          [] OTHER -> 14

\* A place_tiles_in_row that never compares the total with the capacity.
place_tiles_in_row_uncapped(board, row_ind, tile, count) ==
    LET r == board.rows[row_ind]
    IN  [board EXCEPT !.rows[row_ind] = RowSome(tile, r.count + count)]

place_tiles_in_row(board, row_ind, tile, count) ==
    LET r == board.rows[row_ind]
        capacity == row_capacity(row_ind)
        newCount == IF r.some
                    THEN (IF r.count + count > capacity
                          THEN capacity ELSE r.count + count)
                    ELSE (IF count > capacity THEN capacity ELSE count)
        leftover == IF r.some
                    THEN (r.count + count) - newCount
                    ELSE count - newCount
        newRow == IF r.some
                  THEN [r EXCEPT !.count = newCount]
                  ELSE RowSome(tile, newCount)
    IN  [board EXCEPT !.rows[row_ind] = newRow,
                      !.floor = add_tiles(@, tile, leftover)]

\* The loop of predict_score from row `from` on: the scratch wall and the
\* score summed so far.
RECURSIVE PredictRows(_, _, _, _)
PredictRows(board, wall, score, from) ==
    IF from > 4
    THEN [wall |-> wall, score |-> score]
    ELSE LET r == board.rows[from]
         IN  IF r.some /\ r.count = row_capacity(from)
             THEN PredictRows(board,
                              place_and_score_tile_wall(wall, from, r.tile),
                              U8(score + place_and_score_tile_score(
                                                    wall, from, r.tile)),
                              from + 1)
             ELSE PredictRows(board, wall, score, from + 1)

predict_score(board) ==
    LET sim == PredictRows(board, board.wall, 0, 0)
        predicted == U8(U8(board.score + sim.score) + wall_score(sim.wall))
        fs == floor_score(board.floor, board.first_player_tile)
    IN  [board EXCEPT !.predicted_score =
                        IF predicted < fs THEN 0 ELSE predicted - fs]

\* A simulate_wall that moves a tile of every row that holds tiles, at
\* capacity or not.
simulate_wall_any_row(board) ==
    LET Sim[from \in 0 .. 5] ==
            IF from = 0 THEN board.wall
            ELSE LET r == board.rows[from - 1]
                 IN  IF r.some
                     THEN place_tile(Sim[from - 1], from - 1, r.tile)
                     ELSE Sim[from - 1]
    IN  Sim[5]

simulate_wall(board) ==
    LET Sim[from \in 0 .. 5] ==
            IF from = 0 THEN board.wall
            ELSE LET r == board.rows[from - 1]
                 IN  IF r.some /\ r.count = row_capacity(from - 1)
                     THEN place_tile(Sim[from - 1], from - 1, r.tile)
                     ELSE Sim[from - 1]
    IN  Sim[5]

place_tiles(board, dest, tile, count, first_player_tile) ==
    LET b1 == IF first_player_tile
              THEN [board EXCEPT !.first_player_tile = TRUE]
              ELSE board
        b2 == IF dest = Floor
              THEN [b1 EXCEPT !.floor = add_tiles(@, tile, count)]
              ELSE place_tiles_in_row(b1, dest, tile, count)
    IN  predict_score(b2)

\* A row loop that scores each tile on the wall that already holds the
\* tiles of all the full rows, those of the rows above it too.
RECURSIVE EndRoundRows_scores_resolved_wall(_, _, _, _)
EndRoundRows_scores_resolved_wall(board, tile_return, score, from) ==
    IF from > 4
    THEN [board |-> board, tile_return |-> tile_return, score |-> score]
    ELSE LET r == board.rows[from]
         IN  IF r.some /\ r.count = row_capacity(from)
             THEN EndRoundRows_scores_resolved_wall(
                    [board EXCEPT
                        !.wall = place_tile(@, from, r.tile),
                        !.rows[from] = RowDefault],
                    add_tiles(tile_return, r.tile, r.count - 1),
                    U8(score + score_tile(simulate_wall(board), from, r.tile)),
                    from + 1)
             ELSE EndRoundRows_scores_resolved_wall(board, tile_return, score,
                                                    from + 1)

\* A row loop that returns every tile of a full row, the one that goes to
\* the wall too.
RECURSIVE EndRoundRows_returns_whole_row(_, _, _, _)
EndRoundRows_returns_whole_row(board, tile_return, score, from) ==
    IF from > 4
    THEN [board |-> board, tile_return |-> tile_return, score |-> score]
    ELSE LET r == board.rows[from]
         IN  IF r.some /\ r.count = row_capacity(from)
             THEN EndRoundRows_returns_whole_row(
                    [board EXCEPT
                        !.wall = place_tile(@, from, r.tile),
                        !.rows[from] = RowDefault],
                    add_tiles(tile_return, r.tile, r.count),
                    U8(score + score_tile(board.wall, from, r.tile)),
                    from + 1)
             ELSE EndRoundRows_returns_whole_row(board, tile_return, score,
                                                 from + 1)

\* The row loop of PlayerBoard::end_round from row `from` on: the board, the
\* tiles to return and the score summed so far.
RECURSIVE EndRoundRows(_, _, _, _)
EndRoundRows(board, tile_return, score, from) ==
    IF from > 4
    THEN [board |-> board, tile_return |-> tile_return, score |-> score]
    ELSE LET r == board.rows[from]
         IN  IF r.some /\ r.count = row_capacity(from)
             THEN EndRoundRows(
                    [board EXCEPT
                        !.wall = place_tile(@, from, r.tile),
                        !.rows[from] = RowDefault],
                    add_tiles(tile_return, r.tile, r.count - 1),
                    U8(score + score_tile(board.wall, from, r.tile)),
                    from + 1)
             ELSE EndRoundRows(board, tile_return, score, from + 1)

\* An end_round that subtracts the floor score without the test before it:
\* the u8 wraps when the floor score is the larger.
board_end_round_wrapping(board) ==
    LET res == EndRoundRows(board, new_empty, 0, 0)
        floor == res.board.floor
        fs == floor_score(floor, res.board.first_player_tile)
        tot == U8(res.board.score + res.score)
        after == [res.board EXCEPT
                    !.floor = new_empty,
                    !.score = U8(tot - fs),
                    !.first_player_tile = FALSE]
    IN  [board |-> after,
         tile_return |-> add_assign(res.tile_return, floor),
         ends |-> has_full_row(after.wall)]

\* PlayerBoard::end_round: the board afterwards, the returned tiles and
\* whether the wall has a full row.
board_end_round(board) ==
    LET res == EndRoundRows(board, new_empty, 0, 0)
        floor == res.board.floor
        fs == floor_score(floor, res.board.first_player_tile)
        tot == U8(res.board.score + res.score)
        after == [res.board EXCEPT
                    !.floor = new_empty,
                    !.score = IF tot < fs THEN 0 ELSE tot - fs,
                    !.first_player_tile = FALSE]
    IN  [board |-> after,
         tile_return |-> add_assign(res.tile_return, floor),
         ends |-> has_full_row(after.wall)]

\* An end_game that adds the bonus of the wall twice.
end_game_twice(board) ==
    [board EXCEPT !.score = U8(U8(@ + wall_score(board.wall))
                                + wall_score(board.wall))]

end_game(board) == [board EXCEPT !.score = U8(@ + wall_score(board.wall))]

board_tile_count(board) ==
    board.rows[0].count + board.rows[1].count + board.rows[2].count
        + board.rows[3].count + board.rows[4].count
        + total(board.floor) + wall_tile_count(board.wall)

(***************************************************************************)
(* gamestate.rs: Gamestate<P, F>                                           *)
(***************************************************************************)
VARIABLES
    boards,             \* [PlayerBoard; P]
    tilebag,            \* TileGroup
    factories,          \* [Option<TileGroup>; F], slot 0 is the centre
    first_player_tile,  \* bool
    rng,                \* SmallRng
    current_player,     \* u8
    round,              \* u16
    state,              \* State
    last,               \* the last call made on the game and what it returned
    strategy,           \* how each caller picks its move from get_moves
    ply,                \* the number of play_move calls so far
    end_rounds          \* the number of end_round calls so far

vars == <<boards, tilebag, factories, first_player_tile, rng, current_player,
          round, state, last, strategy, ply, end_rounds>>

\* Option<TileGroup>
FactoryNone == [some |-> FALSE, counts |-> new_empty]

FactorySome(g) == [some |-> TRUE, counts |-> g]

\* f.map_or(true, |f| f.total() == 0)
\* A test that takes only an absent group for empty, not a present group
\* without tiles.
FactoryIsEmpty_absent_only(f) == ~f.some

FactoryIsEmpty(f) == IF f.some THEN total(f.counts) = 0 ELSE TRUE

\* One draw of deal's inner loop into factory `slot`: random_tile on the bag,
\* then add_tile; nothing moves and the generator is not used when the bag is
\* empty.
DealDraw(d, slot) ==
    IF total(d.tilebag) = 0
    THEN d
    ELSE LET n == random_range(d.rng, total(d.tilebag))
             tile == random_tile_pick(d.tilebag, n)
         IN  [tilebag |-> [d.tilebag EXCEPT ![tile] = @ - 1],
              rng |-> rng_next(d.rng),
              factories |-> [d.factories EXCEPT
                                ![slot].counts = add_tile(@, tile)]]

\* A deal whose inner loop runs 0..3 instead of 0..4.
DealFactory_three_draws(d, slot) ==
    LET d0 == [d EXCEPT !.factories[slot] = FactorySome(new_empty)]
        d1 == DealDraw(d0, slot)
        d2 == DealDraw(d1, slot)
    IN  DealDraw(d2, slot)

\* deal's inner loop for factory `slot`: a fresh group and 4 draws.
DealFactory(d, slot) ==
    LET d0 == [d EXCEPT !.factories[slot] = FactorySome(new_empty)]
        d1 == DealDraw(d0, slot)
        d2 == DealDraw(d1, slot)
        d3 == DealDraw(d2, slot)
    IN  DealDraw(d3, slot)

\* The tile bag, generator and factories after deal: its outer loop over the
\* slots 1 .. F-1.
deal(bag, gen, facs) ==
    LET Dealt[slot \in Slots] ==
            IF slot = 0
            THEN [tilebag |-> bag, rng |-> gen, factories |-> facs]
            ELSE DealFactory(Dealt[slot - 1], slot)
    IN  Dealt[F - 1]

\* Move, with destination as usize::from(Destination): a row 0..4 or Floor.
Move(source, tile, count, play_count, row_count, destination) ==
    [source |-> source, tile |-> tile, count |-> count,
     play_count |-> play_count, row_count |-> row_count,
     destination |-> destination]

new_to_floor(source, tile, count) == Move(source, tile, count, 0, 0, Floor)

NoMove == Move(0, 0, 0, 0, 0, Floor)

\* Move::row_capacity, fills_row, no_floor_tiles, perfect_move, floor_tiles.
move_row_capacity(m) ==
    IF m.destination = Floor THEN 0 ELSE RowIndex_capacity(m.destination)

fills_row(m) ==
    IF m.destination = Floor THEN FALSE
    ELSE m.row_count = RowIndex_capacity(m.destination)

no_floor_tiles(m) ==
    IF m.destination = Floor THEN FALSE ELSE m.count = m.play_count

perfect_move(m) == fills_row(m) /\ no_floor_tiles(m)

floor_tiles(m) ==
    IF m.destination = Floor THEN m.count ELSE U8(m.count - m.play_count)

\* An is_centre that holds of every source.
is_centre_any(source) == TRUE

is_centre(source) == source = 0

\* get_moves walks the slots, the colours of each and the rows, the floor
\* last: candidate number i of that walk.
CandidateSource(i) == (i - 1) \div 30

CandidateTile(i) == ((i - 1) \div 6) % 5

CandidateDestination(i) == (i - 1) % 6

\* A get_moves that forgets the `count > 0` test of the tile loop.
CandidateEmitted_any_count(facs, board, i) ==
    LET f == facs[CandidateSource(i)]
        tile == CandidateTile(i)
        dest == CandidateDestination(i)
    IN  /\ f.some
        /\ \/ dest = Floor
           \/ can_play_tile(board, dest, tile, f.counts[tile]).some

CandidateEmitted(facs, board, i) ==
    LET f == facs[CandidateSource(i)]
        tile == CandidateTile(i)
        dest == CandidateDestination(i)
    IN  /\ f.some
        /\ f.counts[tile] > 0
        /\ \/ dest = Floor
           \/ can_play_tile(board, dest, tile, f.counts[tile]).some

CandidateMove(facs, board, i) ==
    LET source == CandidateSource(i)
        tile == CandidateTile(i)
        dest == CandidateDestination(i)
        count == facs[source].counts[tile]
    IN  IF dest = Floor
        THEN new_to_floor(source, tile, count)
        ELSE LET can == can_play_tile(board, dest, tile, count)
             IN  Move(source, tile, count, can.play_count, can.row_count, dest)

\* The candidates emitted, in the order of the walk.
EmittedCandidates(facs, board) ==
    SelectSeq([i \in 1 .. (F * 30) |-> i],
              LAMBDA i : CandidateEmitted(facs, board, i))

moves_for(facs, board) ==
    LET emitted == EmittedCandidates(facs, board)
    IN  [j \in 1 .. Len(emitted) |-> CandidateMove(facs, board, emitted[j])]

get_moves_of(facs, bds, player) == moves_for(facs, bds[player])

get_moves == get_moves_of(factories, boards, current_player)

\* A token taken by every draft from the centre, available or not.
takes_fp_ignores_flag(flag, source) == is_centre(source)

\* Whether a move from `source` takes the first player tile.
takes_fp(flag, source) == flag /\ is_centre(source)

\* A turn that does not pass on.
next_player_stays(current) == current

\* The player whose turn follows.
next_player(current) == (current + 1) % P

\* Gamestate::centre
centre_of(facs) == IF facs[0].some THEN facs[0].counts ELSE new_empty

\* The factories after play_move has taken the tiles of move_ and moved the
\* rest of the source to the centre.
\* A play_move that takes the group of every display, not of the source
\* alone, and hands the rest of the source to the centre.
factories_after_move_takes_all(facs, move_) ==
    LET rest == take_tile_rest(facs[move_.source].counts, move_.tile)
        taken == [s \in Slots |->
                    IF s = 0 /\ move_.source # 0 THEN facs[0] ELSE FactoryNone]
    IN  IF taken[0].some
        THEN [taken EXCEPT ![0].counts = add_assign(@, rest)]
        ELSE [taken EXCEPT ![0] = FactorySome(rest)]

\* A play_move that hands the whole group of the source to the centre, the
\* tiles taken with it.
factories_after_move_keeps_taken(facs, move_) ==
    LET rest == facs[move_.source].counts
        taken == [facs EXCEPT ![move_.source] = FactoryNone]
    IN  IF taken[0].some
        THEN [taken EXCEPT ![0].counts = add_assign(@, rest)]
        ELSE [taken EXCEPT ![0] = FactorySome(rest)]

factories_after_move(facs, move_) ==
    LET rest == take_tile_rest(facs[move_.source].counts, move_.tile)
        taken == [facs EXCEPT ![move_.source] = FactoryNone]
    IN  IF taken[0].some
        THEN [taken EXCEPT ![0].counts = add_assign(@, rest)]
        ELSE [taken EXCEPT ![0] = FactorySome(rest)]

\* A round end check that looks at the displays only.
round_is_over_displays_only(facs) ==
    \A s \in Slots \ {0} : FactoryIsEmpty(facs[s])

\* The round ends when no factory holds a tile.
round_is_over(facs) == \A s \in Slots : FactoryIsEmpty(facs[s])

\* A scan for the token holder that falls back on player 0 when no board
\* holds the token.
next_first_player_defaults(bds, current) ==
    LET Scan[i \in 0 .. P] ==
            IF i = 0 THEN 0
            ELSE IF bds[i - 1].first_player_tile THEN i - 1 ELSE Scan[i - 1]
    IN  Scan[P]

\* An end_round that does not look for the holder of the token.
next_first_player_unchanged(bds, current) == current

\* end_round's scan for the holder of the first player tile: the last board,
\* in index order, whose flag is set, and the current player when none is.
next_first_player(bds, current) ==
    LET Scan[i \in 0 .. P] ==
            IF i = 0 THEN current
            ELSE IF bds[i - 1].first_player_tile THEN i - 1 ELSE Scan[i - 1]
    IN  Scan[P]

\* The tile bag after every board's returned tiles have been added.
\* An end_round that drops the tiles the boards return instead of putting
\* them back in the bag.
bag_after_round_drops(bag, bds) == bag

bag_after_round(bag, bds) ==
    LET Add[i \in 0 .. P] ==
            IF i = 0 THEN bag
            ELSE add_assign(Add[i - 1], board_end_round(bds[i - 1]).tile_return)
    IN  Add[P]

\* A round limit that is off by one.
game_is_over_one_round_late(bds, rnd) ==
    (\E p \in Players : board_end_round(bds[p]).ends) \/ rnd = MaxRound + 1

game_is_over(bds, rnd) ==
    (\E p \in Players : board_end_round(bds[p]).ends) \/ rnd = MaxRound

tile_count ==
    LET BoardSum[i \in 0 .. P] ==
            IF i = 0 THEN 0 ELSE BoardSum[i - 1] + board_tile_count(boards[i - 1])
        FactorySum[i \in 0 .. F] ==
            IF i = 0 THEN 0
            ELSE FactorySum[i - 1]
                   + (IF factories[i - 1].some
                      THEN total(factories[i - 1].counts) ELSE 0)
    IN  BoardSum[P] + total(tilebag) + FactorySum[F]

fp_count ==
    Cardinality({p \in Players : boards[p].first_player_tile})
        + (IF first_player_tile THEN 1 ELSE 0)

(***************************************************************************)
(* The callers.  A caller plays a move of the current get_moves; which one *)
(* is its strategy: the first move (as the repository's test does), the    *)
(* last one (always a floor move), or one that walks through the list as   *)
(* the game goes on.                                                       *)
(***************************************************************************)
Strategies == 0 .. MaxStrategy

PickIndex(k, n, c) ==
    IF k = 0 THEN 1
    ELSE IF k = 1 THEN n
    ELSE 1 + ((c * (2 * k - 1) + (k - 2)) % n)

(***************************************************************************)
(* Gamestate::new(seed, first_player)                                      *)
(***************************************************************************)
New(seed, first_player, strat) ==
    LET d == deal(new_bag, seed_from_u64(seed), [s \in Slots |-> FactoryNone])
    IN  /\ boards = [p \in Players |-> PlayerBoardDefault]
        /\ tilebag = d.tilebag
        /\ factories = d.factories
        /\ first_player_tile = TRUE
        /\ rng = d.rng
        /\ current_player = first_player
        /\ round = 1
        /\ state = "RoundActive"
        /\ last = [op |-> "new", player |-> first_player, move |-> NoMove,
                   ret |-> "RoundActive"]
        /\ strategy = strat
        /\ ply = 0
        /\ end_rounds = 0

Init ==
    \E seed \in 0 .. MaxSeed, first_player \in Players,
       strat \in [Players -> Strategies] :
        New(seed, first_player, strat)

(***************************************************************************)
(* Gamestate::play_move(move_), for a move of the current get_moves        *)
(***************************************************************************)
play_move(move_) ==
    LET count == take_tile_count(factories[move_.source].counts, move_.tile)
        fp == takes_fp(first_player_tile, move_.source)
        facs == factories_after_move(factories, move_)
        over == round_is_over(facs)
    IN  /\ boards' = [boards EXCEPT ![current_player] =
                        place_tiles(@, move_.destination, move_.tile, count, fp)]
        /\ first_player_tile' = IF fp THEN FALSE ELSE first_player_tile
        /\ factories' = facs
        /\ state' = IF over THEN "RoundEnd" ELSE state
        /\ current_player' = IF over THEN current_player
                             ELSE next_player(current_player)
        /\ last' = [op |-> "play_move", player |-> current_player,
                    move |-> move_,
                    ret |-> IF over THEN "RoundEnd" ELSE state]
        /\ UNCHANGED <<tilebag, rng, round>>

PlayMove ==
    /\ state = "RoundActive"
    /\ LET moves == get_moves
       IN  /\ Len(moves) > 0
           /\ play_move(moves[PickIndex(strategy[current_player],
                                        Len(moves), ply)])
    /\ ply' = ply + 1
    /\ UNCHANGED <<strategy, end_rounds>>

(***************************************************************************)
(* Gamestate::end_round(), called in RoundEnd                              *)
(***************************************************************************)
end_round ==
    LET resolved == [p \in Players |-> board_end_round(boards[p]).board]
        bag == bag_after_round(tilebag, boards)
        d == deal(bag, rng, factories)
    IN  /\ current_player' = next_first_player(boards, current_player)
        /\ first_player_tile' = TRUE
        /\ IF game_is_over(boards, round)
           THEN /\ boards' = [p \in Players |-> end_game(resolved[p])]
                /\ tilebag' = bag
                /\ state' = "GameEnd"
                /\ last' = [op |-> "end_round", player |-> current_player,
                            move |-> NoMove, ret |-> "GameEnd"]
                /\ UNCHANGED <<factories, rng, round>>
           ELSE /\ boards' = resolved
                /\ tilebag' = d.tilebag
                /\ factories' = d.factories
                /\ rng' = d.rng
                /\ state' = "RoundActive"
                /\ round' = round + 1
                /\ last' = [op |-> "end_round", player |-> current_player,
                            move |-> NoMove, ret |-> "RoundActive"]

EndRound ==
    /\ state = "RoundEnd"
    /\ end_round
    /\ end_rounds' = end_rounds + 1
    /\ UNCHANGED <<strategy, ply>>

Next == PlayMove \/ EndRound

Spec == Init /\ [][Next]_vars

(***************************************************************************)
(* Gamestate::predict_score(move_), called by a player that ranks the      *)
(* moves of get_moves before it plays one (players/mod.rs, pick_move)      *)
(***************************************************************************)
\* `x as i8` of a u8.
as_i8(x) == IF x >= 128 THEN x - 256 ELSE x

\* The i8 subtraction a - b.  When the difference does not fit the i8, a
\* build with overflow checks panics and one without them wraps.
i8_sub(a, b) ==
    LET d == a - b
    IN  IF d >= -128 /\ d <= 127
        THEN {[panic |-> FALSE, delta |-> d]}
        ELSE {[panic |-> TRUE, delta |-> 0],
              [panic |-> FALSE, delta |-> as_i8((d + 512) % 256)]}

\* A prediction that places the tiles the row takes, not the tiles drawn.
predict_score_board_play_count(move_) ==
    place_tiles(boards[current_player], move_.destination, move_.tile,
                move_.play_count,
                is_centre(move_.source) /\ first_player_tile)

\* The clone of the current board after place_tiles.
predict_score_board(move_) ==
    place_tiles(boards[current_player], move_.destination, move_.tile,
                move_.count,
                is_centre(move_.source) /\ first_player_tile)

\* A predict_score that places on the board of the game, not on a clone.
predict_score_in_place(bds, current, board) ==
    [bds EXCEPT ![current] = board]

\* self.boards after the call: the clone is dropped.
predict_score_boards(bds, current, board) == bds

Gamestate_predict_score(move_) ==
    LET prev_score == boards[current_player].predicted_score
        board == predict_score_board(move_)
    IN  /\ \E out \in i8_sub(as_i8(board.predicted_score), as_i8(prev_score)) :
                last' = [op |-> "predict_score", player |-> current_player,
                         move |-> move_,
                         ret |-> [score |-> board.predicted_score,
                                  delta |-> out.delta,
                                  panic |-> out.panic]]
        /\ boards' = predict_score_boards(boards, current_player, board)
        /\ UNCHANGED <<tilebag, factories, first_player_tile, rng,
                       current_player, round, state>>

\* The player asks for the prediction of a move of get_moves; the move it
\* then plays is its strategy's.  A second prediction in a row reaches the
\* states a first one reaches.
PredictScore ==
    /\ state = "RoundActive"
    /\ last.op # "predict_score"
    /\ LET moves == get_moves
       IN  \E j \in 1 .. Len(moves) : Gamestate_predict_score(moves[j])
    /\ UNCHANGED <<strategy, ply, end_rounds>>

\* Games in which both players follow the same strategy, the first player
\* changing with the seed.
PredictInit ==
    \E seed \in 0 .. MaxSeed, k \in Strategies :
        New(seed, seed % P, [p \in Players |-> k])

PredictNext == PlayMove \/ EndRound \/ PredictScore

PredictSpec == PredictInit /\ [][PredictNext]_vars

\* The largest u8, the type of score and predicted_score.
U8Max == 255

\* A freshly dealt game but for the score of the boards, which is any u8:
\* the inputs of the arithmetic of predict_score.
DeltaInit ==
    \E seed \in 0 .. MaxSeed, score \in 0 .. U8Max :
        LET d == deal(new_bag, seed_from_u64(seed), [s \in Slots |-> FactoryNone])
        IN  /\ boards = [p \in Players |->
                            [PlayerBoardDefault EXCEPT
                                !.score = score, !.predicted_score = score]]
            /\ tilebag = d.tilebag
            /\ factories = d.factories
            /\ first_player_tile = TRUE
            /\ rng = d.rng
            /\ current_player = 0
            /\ round = 1
            /\ state = "RoundActive"
            /\ last = [op |-> "new", player |-> 0, move |-> NoMove,
                       ret |-> "RoundActive"]
            /\ strategy = [p \in Players |-> 0]
            /\ ply = 0
            /\ end_rounds = 0

DeltaNext == PredictScore

DeltaSpec == DeltaInit /\ [][DeltaNext]_vars

(***************************************************************************)
(* PlayerBoard::simulate_wall(&self), called on a board of the game in any *)
(* state of it: the call returns a wall and the board it is called on is   *)
(* behind a shared reference.                                              *)
(***************************************************************************)
simulate_wall_self(board) == board

PlayerBoard_simulate_wall(p) ==
    /\ last' = [op |-> "simulate_wall", player |-> p, move |-> NoMove,
                ret |-> simulate_wall(boards[p])]
    /\ boards' = [boards EXCEPT ![p] = simulate_wall_self(@)]
    /\ UNCHANGED <<tilebag, factories, first_player_tile, rng, current_player,
                   round, state>>

SimulateWall ==
    /\ last.op # "simulate_wall"
    /\ \E p \in Players : PlayerBoard_simulate_wall(p)
    /\ UNCHANGED <<strategy, ply, end_rounds>>

SimulateNext == PlayMove \/ EndRound \/ SimulateWall

SimulateSpec == Init /\ [][SimulateNext]_vars

(***************************************************************************)
(* A wall on its own, as the tests of wall.rs build it: Wall::default and  *)
(* then place_tile calls, one tile at a time or a whole row, column or     *)
(* colour of the wall at once.  The wall is that of board 0 of a Gamestate *)
(* that is never dealt.                                                    *)
(***************************************************************************)
\* The number of building steps of a wall.
MaxWallSteps == 3

WallInit ==
    /\ boards = [p \in Players |-> PlayerBoardDefault]
    /\ tilebag = new_bag
    /\ factories = [s \in Slots |-> FactoryNone]
    /\ first_player_tile = TRUE
    /\ rng = seed_from_u64(0)
    /\ current_player = 0
    /\ round = 0
    /\ state = "GameEnd"
    /\ last = [op |-> "default", player |-> 0, move |-> NoMove,
               ret |-> "GameEnd"]
    /\ strategy = [p \in Players |-> 0]
    /\ ply = 0
    /\ end_rounds = 0

\* place_tile for the tile of every row that lies in column `col`.
place_column(wall, col) ==
    LET W[r \in -1 .. 4] ==
            IF r < 0 THEN wall
            ELSE place_tile(W[r - 1], r, (col + 5 - r) % 5)
    IN  W[4]

\* place_tile for every tile of row `row`.
place_row(wall, row) ==
    LET W[t \in -1 .. 4] ==
            IF t < 0 THEN wall ELSE place_tile(W[t - 1], row, t)
    IN  W[4]

\* place_tile for `tile` in every row.
place_colour(wall, tile) ==
    LET W[r \in -1 .. 4] ==
            IF r < 0 THEN wall ELSE place_tile(W[r - 1], r, tile)
    IN  W[4]

WallStep(wall, op) ==
    /\ ply < MaxWallSteps
    /\ boards' = [boards EXCEPT ![0].wall = wall]
    /\ last' = [last EXCEPT !.op = op]
    /\ ply' = ply + 1
    /\ UNCHANGED <<tilebag, factories, first_player_tile, rng, current_player,
                   round, state, strategy, end_rounds>>

WallPlaceTile ==
    \E row \in Rows, tile \in Tiles :
        /\ cell_available(boards[0].wall, row, tile)
        /\ WallStep(place_tile(boards[0].wall, row, tile), "place_tile")

WallPlaceRow ==
    \E row \in Rows : WallStep(place_row(boards[0].wall, row), "place_row")

WallPlaceColumn ==
    \E col \in Columns :
        WallStep(place_column(boards[0].wall, col), "place_column")

WallPlaceColour ==
    \E tile \in Tiles :
        WallStep(place_colour(boards[0].wall, tile), "place_colour")

WallNext ==
    WallPlaceTile \/ WallPlaceRow \/ WallPlaceColumn \/ WallPlaceColour

WallSpec == WallInit /\ [][WallNext]_vars

(***************************************************************************)
(* Claims                                                                  *)
(***************************************************************************)
\* The tiles of a two player game: 20 of each of the 5 colours.
TotalTiles == 100

\* C1. Tile conservation: after construction, after every play_move of a
\* move of get_moves and after every end_round, the tiles of the bag, of all
\* factory slots and of all boards (pattern rows, floor and wall) number 100.
C1_TileConservation == tile_count = TotalTiles

C1_Witness ==
    /\ last.op = "end_round"
    /\ state = "RoundActive"
    /\ \E p \in Players : wall_tile_count(boards[p].wall) > 0
    /\ tile_count = TotalTiles

\* C2. First player token uniqueness: after construction, after every
\* play_move and after every end_round, the boards holding the token plus the
\* global flag count exactly one token.
C2_OneFirstPlayerToken == fp_count = 1

C2_Witness ==
    /\ last.op = "play_move"
    /\ ~first_player_tile
    /\ boards[1].first_player_tile
    /\ ~boards[0].first_player_tile
    /\ fp_count = 1

\* C3. Termination: a game driven by legal moves, end_round being called
\* whenever a round has ended, reaches GameEnd after at most 10 calls of
\* end_round, and the round counter never exceeds 10.  Stated on the states:
\* end_round has been called at most 10 times and its tenth call has ended
\* the game, a round takes at most 20 moves (one for each tile dealt), and
\* the game is never stuck before GameEnd (a move exists while the round is
\* active; end_round is what follows RoundEnd).
C3_Termination ==
    /\ round <= 10
    /\ end_rounds <= 10
    /\ end_rounds = 10 => state = "GameEnd"
    /\ ply <= 20 * round
    /\ state = "RoundActive" => Len(get_moves) > 0
    /\ state \in {"RoundActive", "RoundEnd", "GameEnd"}
    /\ state = "GameEnd" => end_rounds = round

C3_Witness == state = "GameEnd" /\ round = 10 /\ end_rounds = 10

\* C4. Initial deal: right after construction the state is RoundActive, the
\* round is 1, the bag holds 80 tiles, each of the display slots 1..5 holds
\* exactly 4 tiles, the centre holds none and the global token flag is set.
C4_InitialDeal ==
    last.op = "new" =>
        /\ state = "RoundActive"
        /\ round = 1
        /\ total(tilebag) = 80
        /\ \A s \in 1 .. 5 : factories[s].some /\ total(factories[s].counts) = 4
        /\ total(centre_of(factories)) = 0
        /\ first_player_tile

C4_Witness ==
    /\ last.op = "new"
    /\ total(tilebag) = 80
    /\ \E s \in 1 .. 5 : \E t \in Tiles : factories[s].counts[t] \in 1 .. 3

\* C5. Round end detection: play_move returns RoundEnd, and the state is
\* RoundEnd, exactly when after the move no factory slot, centre and displays
\* alike, holds a tile; otherwise it returns RoundActive.
NoTilesLeft ==
    \A s \in Slots : factories[s].some => total(factories[s].counts) = 0

C5_RoundEndDetection ==
    last.op = "play_move" =>
        /\ (last.ret = "RoundEnd" /\ state = "RoundEnd") <=> NoTilesLeft
        /\ ~NoTilesLeft => (last.ret = "RoundActive" /\ state = "RoundActive")

C5_Witness ==
    /\ last.op = "play_move"
    /\ last.ret = "RoundEnd"
    /\ last.move.source = 0
    /\ NoTilesLeft

\* C6. Turn rotation: a play_move that returns RoundActive makes the next
\* player, (current + 1) mod P, the current one; a play_move that returns
\* RoundEnd leaves the current player as it was.
C6_TurnRotation ==
    [][last'.op = "play_move" =>
        /\ last'.ret = "RoundActive" =>
                current_player' = (current_player + 1) % P
        /\ last'.ret = "RoundEnd" => current_player' = current_player]_vars

C6_Witness ==
    /\ last.op = "play_move"
    /\ last.ret = "RoundActive"
    /\ last.player = 1
    /\ current_player = 0

\* C7. Game end condition: end_round returns GameEnd exactly when, the boards
\* resolved, some wall has a fully occupied row or the round is the tenth;
\* otherwise it deals a new round, adds exactly 1 to the round counter and
\* returns RoundActive.
C7_GameEndCondition ==
    [][last'.op = "end_round" =>
        LET fullRow == \E p \in Players : \E r \in Rows :
                            \A c \in Columns : boards'[p].wall[r][c] # NoTile
            over == fullRow \/ round = 10
        IN  /\ (last'.ret = "GameEnd" /\ state' = "GameEnd") <=> over
            /\ ~over =>
                /\ last'.ret = "RoundActive"
                /\ state' = "RoundActive"
                /\ round' = round + 1
                /\ \A s \in 1 .. 5 : total(factories'[s].counts) = 4
                /\ total(tilebag') + 20
                        + board_tile_count(boards'[0])
                        + board_tile_count(boards'[1])
                     = total(tilebag)
                        + board_tile_count(boards[0])
                        + board_tile_count(boards[1])]_vars

C7_Witness ==
    /\ last.op = "end_round"
    /\ last.ret = "GameEnd"
    /\ round < 10
    /\ \E p \in Players : has_full_row(boards[p].wall)

C9_TokenAcquisition ==
    [][last'.op = "play_move" =>
        LET takes == last'.move.source = 0 /\ first_player_tile
        IN  /\ takes =>
                /\ boards'[current_player].first_player_tile
                /\ ~first_player_tile'
                /\ \A p \in Players \ {current_player} :
                    boards'[p].first_player_tile = boards[p].first_player_tile
            /\ ~takes =>
                /\ first_player_tile' = first_player_tile
                /\ \A p \in Players :
                    boards'[p].first_player_tile = boards[p].first_player_tile]_vars

C9_Witness ==
    /\ last.op = "play_move"
    /\ last.move.source = 0
    /\ ~first_player_tile
    /\ ~boards[last.player].first_player_tile
    /\ boards[1 - last.player].first_player_tile

\* C10. Leftover redistribution: a play_move that drafts colour c from the
\* display slot i >= 1 leaves slot i without tiles, adds to the centre, for
\* every colour other than c, exactly what slot i held of it, leaves the
\* centre's count of c and every other display as they were; a play_move that
\* drafts from the centre changes only the centre's count of c, to 0.
C10_LeftoverRedistribution ==
    [][last'.op = "play_move" =>
        LET i == last'.move.source
            c == last'.move.tile
            before == centre_of(factories)
            after == centre_of(factories')
        IN  /\ i >= 1 =>
                /\ factories'[i].some => total(factories'[i].counts) = 0
                /\ \A t \in Tiles \ {c} :
                        after[t] = before[t] + factories[i].counts[t]
                /\ after[c] = before[c]
                /\ \A s \in (1 .. 5) \ {i} : factories'[s] = factories[s]
            /\ i = 0 =>
                /\ \A t \in Tiles \ {c} : after[t] = before[t]
                /\ after[c] = 0
                /\ \A s \in 1 .. 5 : factories'[s] = factories[s]]_vars

C10_Witness ==
    /\ last.op = "play_move"
    /\ last.move.source >= 1
    /\ last.move.count < 4
    /\ total(centre_of(factories)) > 4 - last.move.count

\* The (slot, colour, destination) triples a move is due for: the slot holds
\* the colour, and the destination is the floor or a row can_play_tile accepts.
C11_Expected ==
    {k \in Slots \X Tiles \X (0 .. 5) :
        LET f == factories[k[1]]
        IN  /\ f.some
            /\ f.counts[k[2]] > 0
            /\ \/ k[3] = Floor
               \/ can_play_tile(boards[current_player], k[3], k[2],
                                f.counts[k[2]]).some}

\* C11: get_moves returns one move for every (slot, colour, row) whose slot
\* holds the colour and whose row can_play_tile accepts, one floor move for
\* every (slot, colour) the slot holds, nothing else and nothing twice, and
\* every move's count is the slot's count of the colour.
C11_MoveGenerationExact ==
    LET moves == get_moves
    IN  /\ {<<moves[j].source, moves[j].tile, moves[j].destination>> :
                j \in 1 .. Len(moves)} = C11_Expected
        /\ Len(moves) = Cardinality(C11_Expected)
        /\ \A j \in 1 .. Len(moves) :
                moves[j].count = factories[moves[j].source].counts[moves[j].tile]

\* Mid-round, with tiles in the centre, some colour on offer fits some row
\* and some colour on offer is refused by some row.
C11_Witness ==
    /\ state = "RoundActive"
    /\ last.op = "play_move"
    /\ total(factories[0].counts) > 0
    /\ \E k \in C11_Expected : k[3] # Floor
    /\ \E s \in Slots, t \in Tiles, r \in Rows :
            /\ factories[s].some
            /\ factories[s].counts[t] > 0
            /\ <<s, t, r>> \notin C11_Expected

\* The counts can_play_tile is asked about.
MaxCount == 3

\* C12: can_play_tile returns a result exactly when the row is empty and the
\* wall cell of (row, tile) is unoccupied, or the row holds the same colour
\* with a count below the capacity of the row.
C12_PlacementLegality ==
    \A p \in Players, row \in Rows, tile \in Tiles, count \in 1 .. MaxCount :
        LET b == boards[p]
            r == b.rows[row]
        IN  can_play_tile(b, row, tile, count).some
                <=> \/ ~r.some /\ b.wall[row][(row + tile) % 5] = NoTile
                    \/ r.some /\ r.tile = tile /\ r.count < row + 1

\* A board with an empty row whose wall cell for some colour is taken, a row
\* of a colour that is full and a row of a colour that is not.
C12_Witness ==
    \E p \in Players :
        /\ \E row \in Rows, tile \in Tiles :
                /\ ~boards[p].rows[row].some
                /\ boards[p].wall[row][(row + tile) % 5] # NoTile
        /\ \E row \in Rows :
                /\ boards[p].rows[row].some
                /\ boards[p].rows[row].count = row + 1
        /\ \E row \in Rows :
                /\ boards[p].rows[row].some
                /\ boards[p].rows[row].count < row + 1

\* The board of the current player after play_move(m).
C13_BoardAfter(m) ==
    place_tiles(boards[current_player], m.destination, m.tile,
                take_tile_count(factories[m.source].counts, m.tile),
                takes_fp(first_player_tile, m.source))

\* C13: for every row move of get_moves, play_count is min(count, capacity -
\* current row count), row_count is the current row count + play_count and
\* at most the capacity, and row_count is the number of tiles in the row
\* after play_move.
C13_MoveCountsCapped ==
    LET moves == get_moves
    IN  \A j \in 1 .. Len(moves) :
            LET m == moves[j]
                cur == boards[current_player].rows[m.destination].count
            IN  m.destination # Floor =>
                    /\ m.play_count = Min(m.count, (m.destination + 1) - cur)
                    /\ m.row_count = cur + m.play_count
                    /\ m.row_count <= m.destination + 1
                    /\ m.row_count
                            = C13_BoardAfter(m).rows[m.destination].count

\* C14: for every move m of get_moves, floor_tiles is the number of tiles
\* play_move(m) adds to the floor of the acting board, fills_row holds
\* exactly when the destination row is at capacity afterwards, and
\* no_floor_tiles holds exactly when a row move adds nothing to the floor.
C14_MoveHeuristics ==
    LET moves == get_moves
    IN  \A j \in 1 .. Len(moves) :
            LET m == moves[j]
                after == C13_BoardAfter(m)
                added == total(after.floor)
                            - total(boards[current_player].floor)
            IN  /\ floor_tiles(m) = added
                /\ fills_row(m)
                        <=> /\ m.destination # Floor
                            /\ after.rows[m.destination].count
                                    = m.destination + 1
                /\ no_floor_tiles(m)
                        <=> (m.destination # Floor /\ added = 0)

\* C15: a play_move that places n tiles of a colour in a row holding k tiles
\* leaves min(capacity, k + n) tiles of the colour in the row and adds
\* k + n - min(capacity, k + n) tiles of the colour to the floor, every other
\* row and floor colour unchanged; one that places them on the floor adds n
\* tiles of the colour to the floor and changes no row.
C15_OverflowToFloor ==
    [][last'.op = "play_move" =>
        LET m == last'.move
            b == boards[current_player]
            after == boards'[current_player]
            n == factories[m.source].counts[m.tile]
        IN  IF m.destination = Floor
            THEN /\ after.rows = b.rows
                 /\ after.floor = [b.floor EXCEPT ![m.tile] = @ + n]
            ELSE LET k == b.rows[m.destination].count
                     kept == IF k + n < m.destination + 1
                             THEN k + n ELSE m.destination + 1
                 IN  /\ after.rows[m.destination].some
                     /\ after.rows[m.destination].tile = m.tile
                     /\ after.rows[m.destination].count = kept
                     /\ \A o \in Rows \ {m.destination} :
                            after.rows[o] = b.rows[o]
                     /\ after.floor
                            = [b.floor EXCEPT ![m.tile] = @ + (k + n) - kept]
    ]_vars

\* A play_move has just put more tiles in a row than it had room for: the
\* row is at capacity and the floor holds tiles of the colour.
C15_Witness ==
    /\ last.op = "play_move"
    /\ last.move.destination # Floor
    /\ last.move.count > 1
    /\ boards[last.player].rows[last.move.destination].count
            = last.move.destination + 1
    /\ boards[last.player].rows[last.move.destination].count
            < last.move.count + (last.move.destination + 1)
    /\ boards[last.player].floor[last.move.tile] > 0
    /\ \E o \in Rows :
            /\ boards[last.player].rows[o].some
            /\ boards[last.player].rows[o].count < o + 1
\* The occupied cells met from `at` towards lower (`step` = -1) or higher
\* (`step` = 1) indices, the cell `at` left out, up to the first empty one.
C16_Run(cells, at, step) ==
    LET Walk[i \in -1 .. 5] ==
            IF i < 0 \/ i > 4 THEN 0
            ELSE IF cells[i] = NoTile THEN 0
            ELSE 1 + Walk[i + step]
    IN  Walk[at + step]

C16_RowRun(wall, row, col) ==
    C16_Run(wall[row], col, -1) + C16_Run(wall[row], col, 1)

C16_ColumnRun(wall, row, col) ==
    C16_Run([r \in Rows |-> wall[r][col]], row, -1)
        + C16_Run([r \in Rows |-> wall[r][col]], row, 1)

\* C16: for a free cell (row, tile) of a wall, score_tile is 1 when the runs
\* of occupied cells next to it in its row and in its column are both
\* empty, and else (row run + 1 if there is one) + (column run + 1 if there
\* is one); on the empty wall it is 1 for every cell.
C16_SinglePlacementScore ==
    \A row \in Rows, tile \in Tiles :
        LET wall == boards[0].wall
            col == (row + tile) % 5
            rowRun == C16_RowRun(wall, row, col)
            colRun == C16_ColumnRun(wall, row, col)
        IN  wall[row][col] = NoTile =>
                /\ score_tile(wall, row, tile)
                        = IF rowRun = 0 /\ colRun = 0 THEN 1
                          ELSE (IF rowRun > 0 THEN rowRun + 1 ELSE 0)
                                + (IF colRun > 0 THEN colRun + 1 ELSE 0)
                /\ wall = WallDefault => score_tile(wall, row, tile) = 1

\* A wall with a free cell that has a run in its row and a run in its
\* column, a free cell whose row holds tiles beyond a gap, and a free cell
\* with no neighbour at all.
C16_Witness ==
    LET wall == boards[0].wall
        free == {rc \in Rows \X Columns : wall[rc[1]][rc[2]] = NoTile}
    IN  /\ \E rc \in free :
                /\ C16_RowRun(wall, rc[1], rc[2]) > 1
                /\ C16_ColumnRun(wall, rc[1], rc[2]) > 0
        /\ \E rc \in free :
                /\ C16_RowRun(wall, rc[1], rc[2]) = 0
                /\ C16_ColumnRun(wall, rc[1], rc[2]) = 0
                /\ \E c \in Columns : wall[rc[1]][c] # NoTile
        /\ \E rc \in free :
                /\ C16_Run(wall[rc[1]], rc[2], 1) > 0
                /\ \E c \in Columns :
                        /\ c > rc[2] + C16_Run(wall[rc[1]], rc[2], 1) + 1
                        /\ wall[rc[1]][c] # NoTile

\* The colours whose five cells, found in the table WALL_COLOURS, are all
\* occupied.
C17_FullColours(wall) ==
    {t \in Tiles :
        \A r \in Rows :
            \E c \in Columns :
                WALL_COLOURS[r + 1][c + 1] = t /\ wall[r][c] # NoTile}

\* C17: the score of a wall is 2 for every fully occupied row, 7 for every
\* fully occupied column and 10 for every colour whose five cells are all
\* occupied.
C17_WallBonus ==
    LET wall == boards[0].wall
        fullRows == {r \in Rows : \A c \in Columns : wall[r][c] # NoTile}
        fullColumns == {c \in Columns : \A r \in Rows : wall[r][c] # NoTile}
    IN  wall_score(wall)
            = 2 * Cardinality(fullRows) + 7 * Cardinality(fullColumns)
                + 10 * Cardinality(C17_FullColours(wall))

\* A wall with a full row, a full column and a full colour, and with rows,
\* columns and colours that are not full.
C17_Witness ==
    LET wall == boards[0].wall
    IN  /\ \E r \in Rows : \A c \in Columns : wall[r][c] # NoTile
        /\ \E c \in Columns : \A r \in Rows : wall[r][c] # NoTile
        /\ C17_FullColours(wall) # {}
        /\ C17_FullColours(wall) # Tiles
        /\ wall_score(wall) = 19

\* C18: the column of (row, tile) is (row + tile) mod 5, WALL_COLOURS holds
\* the tile there, every colour has one cell in each row and in each column,
\* and the tiles placed on a wall sit in the cells of their colour.
C18_WallColumnRule ==
    /\ \A r \in Rows, t \in Tiles :
            /\ tile_column(r, t) = (r + t) % 5
            /\ WALL_COLOURS[r + 1][tile_column(r, t) + 1] = t
            /\ Cardinality({c \in Columns : WALL_COLOURS[r + 1][c + 1] = t}) = 1
    /\ \A c \in Columns, t \in Tiles :
            /\ Cardinality({r \in Rows : WALL_COLOURS[r + 1][c + 1] = t}) = 1
            /\ Cardinality({r \in Rows : tile_column(r, t) = c}) = 1
    /\ \A r \in Rows, c \in Columns :
            boards[0].wall[r][c] # NoTile
                => boards[0].wall[r][c] = WALL_COLOURS[r + 1][c + 1]

\* A wall on which place_tile has put a whole colour and tiles of others.
C18_Witness ==
    /\ C17_FullColours(boards[0].wall) # {}
    /\ wall_tile_count(boards[0].wall) > 9
    /\ \A t \in Tiles : \E r \in Rows :
            boards[0].wall[r][(r + t) % 5] = t

\* The penalty of n floor items.
C19_Penalty(n) == IF n >= 7 THEN 14 ELSE <<0, 1, 2, 4, 6, 8, 11>>[n + 1]

\* The floor sizes the penalty is asked for beside those of the boards.
MaxFloor == 9

\* C19: the floor score of n items, the tiles of the floor and the first
\* player token if the board holds it, is 0, 1, 2, 4, 6, 8, 11 for n = 0..6
\* and 14 from 7 on.
C19_FloorPenaltyTable ==
    /\ \A p \in Players :
            floor_score(boards[p].floor, boards[p].first_player_tile)
                = C19_Penalty(total(boards[p].floor)
                                + (IF boards[p].first_player_tile THEN 1 ELSE 0))
    /\ \A n \in 0 .. MaxFloor, fp \in BOOLEAN :
            floor_score(add_tiles(new_empty, n % 5, n), fp)
                = C19_Penalty(n + (IF fp THEN 1 ELSE 0))

\* One board holds the token and six tiles or more on its floor, the other a
\* floor of one to six tiles.
C19_Witness ==
    \E p \in Players, q \in Players :
        /\ boards[p].first_player_tile
        /\ total(boards[p].floor) >= 6
        /\ total(boards[q].floor) \in 1 .. 6
        /\ ~boards[q].first_player_tile

\* The rows end_round resolves, lowest first: the sum of the scores of
\* their tiles, each scored on the wall holding the ones before it.
C20_Placed(b) ==
    LET Done[r \in -1 .. 4] ==
            IF r < 0 THEN [wall |-> b.wall, sum |-> 0]
            ELSE IF b.rows[r].some /\ b.rows[r].count = r + 1
                 THEN [wall |-> place_tile(Done[r - 1].wall, r, b.rows[r].tile),
                       sum |-> Done[r - 1].sum
                                + score_tile(Done[r - 1].wall, r, b.rows[r].tile)]
                 ELSE Done[r - 1]
    IN  Done[4].sum

C20_Raw(b) ==
    b.score + C20_Placed(b)
        - C19_Penalty(total(b.floor) + (IF b.first_player_tile THEN 1 ELSE 0))

\* C20: after the end_round of a board its score is max(0, score before +
\* scores of the rows resolved - floor penalty of the floor and token held
\* before), and the sum before the subtraction fits the u8.
C20_RoundScoreClamped ==
    \A p \in Players :
        LET b == boards[p]
        IN  /\ board_end_round(b).board.score
                    = IF C20_Raw(b) < 0 THEN 0 ELSE C20_Raw(b)
            /\ b.score + C20_Placed(b) < 256

\* A round is over with a board whose penalty exceeds its score and the
\* scores of its full rows, and a board for which it does not.
C20_Witness ==
    /\ state = "RoundEnd"
    /\ \E p \in Players :
            /\ C20_Placed(boards[p]) > 0
            /\ C20_Raw(boards[p]) < 0
    /\ \E p \in Players :
            /\ C20_Placed(boards[p]) > 0
            /\ C20_Raw(boards[p]) > 0
            /\ total(boards[p].floor) > 0

\* The tiles a board gives back at the end of a round: its floor, and all
\* but one of the tiles of each row at capacity.
C21_Returned(b) ==
    [t \in Tiles |->
        LET FromRows[r \in -1 .. 4] ==
                IF r < 0 THEN 0
                ELSE FromRows[r - 1]
                        + (IF b.rows[r].some /\ b.rows[r].count = r + 1
                              /\ b.rows[r].tile = t
                           THEN r ELSE 0)
        IN  b.floor[t] + FromRows[4]]

\* C21: an end_round puts one tile of every row at capacity in the wall cell
\* of the row and colour and clears the row, leaves every other row and wall
\* cell as it was, empties the floor, and returns capacity - 1 tiles per
\* resolved row and the tiles of the floor, no more: they are what the bag
\* and the displays dealt from it gain.
C21_RoundResolution ==
    [][last'.op = "end_round" =>
        /\ \A p \in Players :
                LET b == boards[p]
                    a == boards'[p]
                IN  /\ \A r \in Rows :
                            LET full == b.rows[r].some /\ b.rows[r].count = r + 1
                            IN  /\ a.rows[r] = IF full THEN RowDefault
                                                ELSE b.rows[r]
                                /\ \A c \in Columns :
                                        a.wall[r][c]
                                            = IF full /\ c = (r + b.rows[r].tile) % 5
                                              THEN b.rows[r].tile
                                              ELSE b.wall[r][c]
                    /\ a.floor = [t \in Tiles |-> 0]
                    /\ board_end_round(b).tile_return = C21_Returned(b)
        /\ \A t \in Tiles :
                tilebag'[t] + factories'[0].counts[t] + factories'[1].counts[t]
                    + factories'[2].counts[t] + factories'[3].counts[t]
                    + factories'[4].counts[t] + factories'[5].counts[t]
                  = tilebag[t] + C21_Returned(boards[0])[t]
                        + C21_Returned(boards[1])[t]
    ]_vars

\* An end_round has moved tiles to a wall, left a part filled row where it
\* was, and returned tiles to the bag before the deal.
C21_Witness ==
    /\ last.op = "end_round"
    /\ last.ret = "RoundActive"
    /\ total(tilebag) > 100 - 20 * round
    /\ \E p \in Players :
            /\ wall_tile_count(boards[p].wall) > 1
            /\ \E r \in Rows : boards[p].rows[r].some

\* C22: a call of Gamestate::predict_score leaves the boards, the bag, the
\* factories, the token flag, the current player, the round and the state of
\* the game as they were (and the generator too).
C22_PredictScoreReadOnly ==
    [][last'.op = "predict_score" =>
        /\ boards' = boards
        /\ tilebag' = tilebag
        /\ factories' = factories
        /\ first_player_tile' = first_player_tile
        /\ current_player' = current_player
        /\ round' = round
        /\ state' = state
        /\ rng' = rng
    ]_vars

\* A prediction was made, mid-game, of a move that changes the predicted
\* score of the board and takes the first player tile.
C22_Witness ==
    /\ last.op = "predict_score"
    /\ ply > 0
    /\ last.ret.score # boards[last.player].predicted_score
    /\ last.move.source = 0
    /\ first_player_tile
    /\ ~boards[last.player].first_player_tile

\* C23: after construction, after every play_move and after every end_round,
\* predict_score leaves every board as it was: the predicted_score the
\* board stores is the one predict_score computes.
C23_PredictScoreKeepsBoard ==
    \A p \in Players : predict_score(boards[p]) = boards[p]

\* C24: right after a placement on a board, its predicted_score is the
\* score its end_round would store if run on the board as it is.
C24_PredictedIsRoundScore ==
    last.op = "play_move" =>
        boards[last.player].predicted_score
            = board_end_round(boards[last.player]).board.score

\* C26: a wall cell that holds a tile holds the same tile after every
\* play_move and end_round.
C26_WallCellsPermanent ==
    [][\A p \in Players, r \in Rows, c \in Columns :
            boards[p].wall[r][c] # NoTile
                => boards'[p].wall[r][c] = boards[p].wall[r][c]]_vars

\* Three rounds have been resolved and a wall holds two tiles in one row.
C26_Witness ==
    /\ end_rounds > 2
    /\ \E p \in Players, r \in Rows :
            Cardinality({c \in Columns : boards[p].wall[r][c] # NoTile}) > 1

\* C27: every pattern row of every board is empty or holds one colour with a
\* count above 0 and at most the capacity of the row, its index + 1.
C27_PatternRows ==
    \A p \in Players, r \in Rows :
        LET row == boards[p].rows[r]
        IN  IF row.some
            THEN row.tile \in Tiles /\ 0 < row.count /\ row.count <= r + 1
            ELSE row = [some |-> FALSE, tile |-> 0, count |-> 0]

\* A play_move has offered a row more tiles than fit, and the board holds a
\* full row, a part filled row and an empty row.
C27_Witness ==
    /\ last.op = "play_move"
    /\ last.move.destination # Floor
    /\ last.move.count > last.move.destination + 1
    /\ \E r \in Rows : /\ boards[last.player].rows[r].some
                        /\ boards[last.player].rows[r].count < r + 1
    /\ \E r \in Rows : ~boards[last.player].rows[r].some

\* C29: the score Gamestate::predict_score returns for a move of get_moves
\* is the predicted_score of the acting board after play_move of that move:
\* as play_move would compute it, for every move predicted, and as
\* play_move leaves it, for the move that is played next.
C29_PredictedAgreesWithMove ==
    [][/\ last'.op = "predict_score" =>
            last'.ret.score = C13_BoardAfter(last'.move).predicted_score
       /\ (last.op = "predict_score" /\ last'.op = "play_move"
                /\ last'.move = last.move) =>
            boards'[current_player].predicted_score = last.ret.score
    ]_vars

\* A prediction of a move that overflows its row and takes the first player
\* tile, on a board that scores.
C29_Witness ==
    /\ last.op = "predict_score"
    /\ last.move.destination # Floor
    /\ boards[last.player].rows[last.move.destination].some
    /\ last.move.count > last.move.play_count
    /\ last.move.source = 0
    /\ first_player_tile
    /\ last.ret.score > 0

\* C30: the second component of Gamestate::predict_score is the predicted
\* score after the move minus the predicted score before it, as an integer,
\* for scores anywhere in 0..255: the casts and the subtraction neither wrap
\* nor overflow.
C30_DeltaExact ==
    last.op = "predict_score" =>
        /\ ~last.ret.panic
        /\ last.ret.delta
                = last.ret.score - boards[last.player].predicted_score

\* The bonus of a wall: 2 a full row, 7 a full column, 10 a full colour.
C28_Bonus(wall) ==
    2 * Cardinality({r \in Rows : \A c \in Columns : wall[r][c] # NoTile})
        + 7 * Cardinality({c \in Columns : \A r \in Rows : wall[r][c] # NoTile})
        + 10 * Cardinality(C17_FullColours(wall))

\* The score a round resolution leaves.
C28_Resolved(b) == IF C20_Raw(b) < 0 THEN 0 ELSE C20_Raw(b)

\* C28: the end_round that returns GameEnd leaves every board the score of
\* its round resolution plus the bonus of its wall, an end_round that
\* returns RoundActive the score of the round resolution alone, and a
\* play_move leaves every score as it was.
C28_BonusOnce ==
    [][/\ last'.op = "end_round" =>
            \A p \in Players :
                boards'[p].score
                    = C28_Resolved(boards[p])
                        + (IF last'.ret = "GameEnd"
                           THEN C28_Bonus(boards'[p].wall) ELSE 0)
       /\ last'.op = "play_move" =>
            \A p \in Players : boards'[p].score = boards[p].score
    ]_vars

\* The game has ended on a wall with a bonus, after a round that ended
\* without one.
C28_Witness ==
    /\ state = "GameEnd"
    /\ last.ret = "GameEnd"
    /\ end_rounds > 1
    /\ \E p \in Players :
            /\ C28_Bonus(boards[p].wall) > 0
            /\ boards[p].score > C28_Bonus(boards[p].wall)

\* C31: right after a deal (at construction, and after an end_round that
\* returns RoundActive) the centre slot is None, not a present group.
C31_CentreAbsentAfterDeal ==
    (last.op \in {"new", "end_round"} /\ state = "RoundActive")
        => ~factories[0].some

\* Row r of the board is at capacity.
C32_Full(b, r) == b.rows[r].some /\ b.rows[r].count = r + 1

\* The wall of the board with the tiles of its full rows below row r on it.
C32_WallBelow(b, r) ==
    [row \in Rows |-> [c \in Columns |->
        IF row < r /\ C32_Full(b, row) /\ c = (row + b.rows[row].tile) % 5
        THEN b.rows[row].tile
        ELSE b.wall[row][c]]]

\* The score of the full rows, each placed on the wall `on(r)`.
C32_Sum(b, on(_)) ==
    LET S(r) == IF C32_Full(b, r) THEN score_tile(on(r), r, b.rows[r].tile)
                ELSE 0
    IN  S(0) + S(1) + S(2) + S(3) + S(4)

\* C32: the round resolution of a board takes its rows from capacity 1 to
\* capacity 5, and scores the tile of each full row on the wall that holds
\* the tiles of the full rows below it, placed in the same resolution, and
\* not yet the tiles of the full rows above it; the wall it leaves holds the
\* tiles of all the full rows.
C32_ResolutionOrder ==
    \A p \in Players :
        LET b == boards[p]
            res == EndRoundRows(b, new_empty, 0, 0)
        IN  /\ res.score = C32_Sum(b, LAMBDA r : C32_WallBelow(b, r))
            /\ res.board.wall = C32_WallBelow(b, 5)

\* A round is over with a board whose full rows score differently on the
\* wall as it grows than on the wall before the resolution, and one whose
\* full rows score differently than on the wall after it.
C32_Witness ==
    /\ state = "RoundEnd"
    /\ \E p \in Players :
            C32_Sum(boards[p], LAMBDA r : C32_WallBelow(boards[p], r))
                # C32_Sum(boards[p], LAMBDA r : boards[p].wall)
    /\ \E p \in Players :
            C32_Sum(boards[p], LAMBDA r : C32_WallBelow(boards[p], r))
                # C32_Sum(boards[p], LAMBDA r : C32_WallBelow(boards[p], 5))

\* C33: simulate_wall returns the wall the board has after its end_round,
\* and the call leaves the board, and the rest of the game, as it was.
C33_SimulateWallMatches ==
    [][last'.op = "simulate_wall" =>
        /\ last'.ret = board_end_round(boards[last'.player]).board.wall
        /\ boards' = boards
        /\ UNCHANGED <<tilebag, factories, first_player_tile, rng,
                       current_player, round, state>>
    ]_vars

\* simulate_wall has returned a wall with tiles the wall of the board does
\* not hold yet, for a board that keeps a part filled row.
C33_Witness ==
    /\ last.op = "simulate_wall"
    /\ wall_tile_count(last.ret) > wall_tile_count(boards[last.player].wall) + 1
    /\ wall_tile_count(boards[last.player].wall) > 0
    /\ \E r \in Rows :
            /\ boards[last.player].rows[r].some
            /\ boards[last.player].rows[r].count < r + 1

\* The number of rows of the board at capacity.
C34_FullRows(b) ==
    Cardinality({r \in Rows : b.rows[r].some /\ b.rows[r].count = r + 1})

\* C34: after every step, the wall cell of a row that holds tiles and of
\* the colour it holds is empty; and every end_round adds to each wall as
\* many tiles as the board had full rows, so none of them went to a cell
\* that held a tile.
C34_RowWallConsistency ==
    [][/\ \A p \in Players, r \in Rows :
            boards'[p].rows[r].some
                => boards'[p].wall[r][(r + boards'[p].rows[r].tile) % 5] = NoTile
       /\ last'.op = "end_round" =>
            \A p \in Players :
                wall_tile_count(boards'[p].wall)
                    = wall_tile_count(boards[p].wall) + C34_FullRows(boards[p])
    ]_vars

\* After two or more end_rounds a board with tiles on its wall holds, in a
\* row, tiles of a colour that its wall already holds in another row.
C34_Witness ==
    /\ end_rounds > 1
    /\ \E p \in Players :
            /\ wall_tile_count(boards[p].wall) > 2
            /\ \E r \in Rows :
                    /\ boards[p].rows[r].some
                    /\ \E r2 \in Rows :
                          boards[p].wall[r2][(r2 + boards[p].rows[r].tile) % 5]
                              # NoTile

\* The tiles of colour t a board holds in its rows, on its floor and on
\* its wall.
C35_OnBoard(b, t) ==
    Cardinality({rc \in Rows \X Columns : b.wall[rc[1]][rc[2]] = t})
        + b.floor[t]
        + (IF b.rows[0].some /\ b.rows[0].tile = t THEN b.rows[0].count ELSE 0)
        + (IF b.rows[1].some /\ b.rows[1].tile = t THEN b.rows[1].count ELSE 0)
        + (IF b.rows[2].some /\ b.rows[2].tile = t THEN b.rows[2].count ELSE 0)
        + (IF b.rows[3].some /\ b.rows[3].tile = t THEN b.rows[3].count ELSE 0)
        + (IF b.rows[4].some /\ b.rows[4].tile = t THEN b.rows[4].count ELSE 0)

\* The tiles of colour t in the factory slots that hold a group.
C35_InSlots(t) ==
    LET In(s) == IF factories[s].some THEN factories[s].counts[t] ELSE 0
    IN  In(0) + In(1) + In(2) + In(3) + In(4) + In(5)

\* The tiles of a colour in a new bag.
TilesPerColour == 20

\* C35: of each of the 5 colours, the bag, the factory slots and the boards
\* (rows, floor, wall) together hold exactly 20 tiles.
C35_ColourConservation ==
    \A t \in Tiles :
        tilebag[t] + C35_InSlots(t)
            + C35_OnBoard(boards[0], t) + C35_OnBoard(boards[1], t)
          = TilesPerColour

\* A round has been resolved and another one played, and some colour is at
\* once in the bag, in a slot, and in a row, on the floor and on the wall of
\* a board.
C35_Witness ==
    /\ end_rounds > 0
    /\ last.op = "play_move"
    /\ \E t \in Tiles, p \in Players :
            /\ tilebag[t] > 0
            /\ C35_InSlots(t) > 0
            /\ boards[p].floor[t] > 0
            /\ \E r \in Rows : boards[p].rows[r].some /\ boards[p].rows[r].tile = t
            /\ \E rc \in Rows \X Columns : boards[p].wall[rc[1]][rc[2]] = t

\* The tiles of a deal: 4 for each of the 5 displays.
DealSize == 4 * (F - 1)

\* C36: at every deal, that of the construction and that of each end_round
\* that returns RoundActive, the bag holds at least 20 tiles, and each of the
\* 5 displays receives exactly 4 of them.
C36_BagNeverShort ==
    /\ last.op = "new" =>
            /\ total(tilebag) + DealSize = total(new_bag)
            /\ \A s \in 1 .. 5 :
                    factories[s].some /\ total(factories[s].counts) = 4
    /\ [][(last'.op = "end_round" /\ last'.ret = "RoundActive") =>
            /\ total(bag_after_round(tilebag, boards)) >= DealSize
            /\ total(tilebag') + DealSize
                    = total(bag_after_round(tilebag, boards))
            /\ \A s \in 1 .. 5 :
                    factories'[s].some /\ total(factories'[s].counts) = 4
       ]_vars

\* A round from the sixth on has been dealt, after five deals whose tiles
\* came back only in part, from a bag that held fewer than 70 tiles.
C36_Witness ==
    /\ last.op = "end_round"
    /\ last.ret = "RoundActive"
    /\ round > 5
    /\ total(tilebag) + DealSize < 70

\* C37: get_moves returns a list with a move in it if and only if the state
\* is RoundActive; in RoundEnd and in GameEnd it returns the empty list.
C37_MovesIffRoundActive ==
    (Len(get_moves) > 0) <=> (state = "RoundActive")

\* A round is over, or the game is, and the centre is a present group: the
\* slots are there for get_moves to walk, and none offers a tile.
C37_Witness ==
    /\ state \in {"RoundEnd", "GameEnd"}
    /\ factories[0].some
    /\ Len(get_moves) = 0
    /\ ply > 5

\* The boards that hold the first player token.
C38_Holders == {p \in Players : boards[p].first_player_tile}

\* C38: whenever play_move has returned RoundEnd, the global token flag is
\* false and exactly one board holds the token.
C38_TokenClaimedAtRoundEnd ==
    (last.op = "play_move" /\ last.ret = "RoundEnd")
        => (~first_player_tile /\ Cardinality(C38_Holders) = 1)

\* C38, amended: a draft from the centre leaves the token with exactly one
\* board and the global flag false, and the flag stays false for the rest of
\* the round; so when play_move returns RoundEnd either the flag is false and
\* exactly one board holds the token, or no move of the round drew from the
\* centre, the flag is still set and no board holds the token.  In that case
\* end_round finds no holder and the player of the last move starts the next
\* round.
C38_TokenAtRoundEnd ==
    [][/\ last'.op = "play_move" =>
            /\ (last'.move.source = 0 \/ ~first_player_tile)
                    => (~first_player_tile'
                            /\ Cardinality(C38_Holders') = 1)
            /\ (last'.move.source # 0 /\ first_player_tile)
                    => (first_player_tile' /\ C38_Holders' = {})
       /\ last'.op = "end_round" =>
            /\ last.op = "play_move" /\ last.ret = "RoundEnd"
            /\ C38_Holders = {} =>
                    (first_player_tile /\ current_player' = last.player)
            /\ C38_Holders # {} =>
                    (~first_player_tile /\ C38_Holders = {current_player'})
    ]_vars

\* A round has ended without a draft from the centre: the last move was
\* made by player 1, the flag is still set and no board holds the token.
C38_Witness ==
    /\ last.op = "play_move"
    /\ last.ret = "RoundEnd"
    /\ last.player = 1
    /\ first_player_tile
    /\ C38_Holders = {}

\* The tiles in the factory slots, centre and displays together.
C39_SlotTiles ==
    LET In(s) == IF factories[s].some THEN total(factories[s].counts) ELSE 0
    IN  In(0) + In(1) + In(2) + In(3) + In(4) + In(5)

\* C39: every play_move takes at least one tile, and the slots hold after
\* it exactly the move's count of tiles fewer than before; the slots hold
\* 4 x (2P + 1) tiles when a round starts, so that the moves played and the
\* tiles left in the slots together never exceed 4 x (2P + 1) per round
\* dealt, and a round ends after at most that many moves.
C39_RoundProgress ==
    [][/\ last'.op = "play_move" =>
            /\ last'.move.count >= 1
            /\ C39_SlotTiles' = C39_SlotTiles - last'.move.count
            /\ C39_SlotTiles' >= 0
            /\ (C39_SlotTiles' = 0) <=> (last'.ret = "RoundEnd")
       /\ (last'.op = "end_round" /\ last'.ret = "RoundActive") =>
            C39_SlotTiles' = 4 * (2 * P + 1)
       /\ ply' + C39_SlotTiles' <= 4 * (2 * P + 1) * round'
    ]_vars

\* The first round has ended after more than 10 moves, the last of which
\* took a single tile.
C39_Witness ==
    /\ last.op = "play_move"
    /\ last.ret = "RoundEnd"
    /\ round = 1
    /\ ply > 10
    /\ last.move.count = 1

\* C40: a play_move leaves the board of every player but the one who moves
\* (rows, floor, wall, score, predicted_score, token flag), the tile bag and
\* the round counter as they were, and every factory slot but the source and
\* the centre too (and the generator).
C40_PlayMoveFrame ==
    [][last'.op = "play_move" =>
        /\ last'.player = current_player
        /\ \A p \in Players \ {current_player} : boards'[p] = boards[p]
        /\ \A s \in Slots \ {0, last'.move.source} :
                factories'[s] = factories[s]
        /\ tilebag' = tilebag
        /\ round' = round
        /\ rng' = rng
    ]_vars

\* A move has been played from a display while another display held tiles,
\* by a player whose opponent has tiles on the wall, in a row and on the
\* floor, a score and a predicted score.
C40_Witness ==
    /\ last.op = "play_move"
    /\ last.move.source # 0
    /\ \E s \in Slots \ {0, last.move.source} :
            factories[s].some /\ total(factories[s].counts) > 0
    /\ boards[last.player] # PlayerBoardDefault
    /\ \E p \in Players \ {last.player} :
            /\ wall_tile_count(boards[p].wall) > 0
            /\ total(boards[p].floor) > 0
            /\ \E r \in Rows : boards[p].rows[r].some
            /\ boards[p].score > 0
            /\ boards[p].predicted_score > 0

====
